---------------------------- MODULE Spec2Model ----------------------------
(***************************************************************************)
(* MatchZoo: the point generator (matchzoo/generators/point_generator.py)  *)
(* and the CDSSM preprocessor (matchzoo/preprocessor/cdssm_preprocessor.py)*)
(*                                                                         *)
(* Conventions.  numpy positions are 0-based; a sequence here is 1-based,  *)
(* so position k of an array is element k+1 of the sequence that models    *)
(* it.  An index_array holds positions of relation rows, written 1-based.  *)
(* Python's None and the absence of a generator, a call or a datapack are  *)
(* records with a `kind` field, so that every comparison is well typed.    *)
(***************************************************************************)
EXTENDS Integers, Sequences, FiniteSets, TLC

VARIABLES
    gen,     \* the PointGenerator object (its fields), or NoGen before __init__
    call,    \* the last _get_batch_of_transformed_samples call and its outcome
    heap,    \* the context dictionaries: reference -> dict
    ctx,     \* preprocessor -> reference held by its _context field
    dp,      \* preprocessor -> the datapack of its last fit (its context ref)
    held,    \* the reference a consumer obtained, with the dict it then saw
    last     \* the last fit: the dict it wrote and its inputs, or NoFit

vars == <<gen, call, heap, ctx, dp, held, last>>

genVars == <<gen, call>>

preVars == <<heap, ctx, dp, held, last>>

-----------------------------------------------------------------------------
(* Bounds and input domains of the generator.                              *)

\* The largest number of relation rows of a DataPack.
MaxRows == 2

\* The (id_left, id_right) pairs a relation row may hold.
IdPairs == {<<"q0", "d0">>, <<"q1", "d1">>}

LeftIds == {p[1] : p \in IdPairs}

RightIds == {p[2] : p \in IdPairs}

\* The integer labels a relation row may hold.
Labels == {-1, 0, 1, 2}

\* The class counts a Classification task is built with.
ClassCounts == {2, 3}

\* The feature columns the left and the right side table may declare.
LeftColumnChoices == {<<"text_left">>, <<"text_left", "ids">>, <<"text">>}

RightColumnChoices == {<<"text_right">>, <<"text">>}

\* The ids a side table may be indexed by: all of them, or the first only.
LeftIndexChoices == {LeftIds, {"q0"}}

RightIndexChoices == {RightIds}

Stages == {"train", "test"}

\* Task objects: the two kinds the generator knows, and any other BaseTask.
Tasks ==
    {[kind |-> "Ranking", num_classes |-> 0],
     [kind |-> "Other", num_classes |-> 0]}
    \cup {[kind |-> "Classification", num_classes |-> c] : c \in ClassCounts}

Range(s) == {s[k] : k \in DOMAIN s}

\* The relation tables: 1..MaxRows rows (id_left, id_right, label).
RelationRows == [id_left : LeftIds, id_right : RightIds, label : Labels]

Relations ==
    UNION {[1..n -> {r \in RelationRows : <<r.id_left, r.id_right>> \in IdPairs}]
           : n \in 1..MaxRows}

\* A side table with the given columns and index.  The cell of column c at
\* id i is the triple (side, c, i): every cell of every table is distinct.
SideTable(side, columns, index) ==
    [columns |-> columns,
     index |-> index,
     data |-> [c \in Range(columns) |-> [i \in index |-> <<side, c, i>>]]]

\* DataPack inputs: relation, left and right.
DataPacks ==
    {[relation |-> r, left |-> SideTable("left", lc, li),
      right |-> SideTable("right", rc, ri)] :
        r \in Relations, lc \in LeftColumnChoices, li \in LeftIndexChoices,
        rc \in RightColumnChoices, ri \in RightIndexChoices}

\* The index arrays over n rows: every ordering of every non-empty subset of
\* positions (a batch holds at least one row).
IndexArrays(n) ==
    UNION {{s \in [1..m -> 1..n] : \A a, b \in 1..m : s[a] = s[b] => a = b}
           : m \in 1..n}

-----------------------------------------------------------------------------
(* Values.                                                                 *)

NoGen == [kind |-> "NoGen"]

NoCall == [kind |-> "NoCall"]

None == [kind |-> "None"]

\* A dict with key k set to v (d[k] = v).
DictSet(d, k, v) ==
    [x \in (DOMAIN d) \cup {k} |-> IF x = k THEN v ELSE d[x]]

EmptyDict == [x \in {} |-> None]

-----------------------------------------------------------------------------
(* PointGenerator.                                                         *)

\* _transform_relation: one array per column of the relation table.
TransformRelation(relation) ==
    [id_left |-> [k \in DOMAIN relation |-> relation[k].id_left],
     id_right |-> [k \in DOMAIN relation |-> relation[k].id_right],
     label |-> [k \in DOMAIN relation |-> relation[k].label]]

\* task.output_dtype: float for Ranking (the integer becomes a float of the
\* same value), int for Classification.
OutputDtype(task, label) ==
    IF task.kind = "Ranking"
    THEN [dtype |-> "float", value |-> label]
    ELSE label

\* array[index_array]: numpy's selection of positions.
Take(array, index_array) ==
    [k \in DOMAIN index_array |-> array[index_array[k]]]

\* np.zeros((rows, cols)).
Zeros(rows, cols) == [r \in 1..rows |-> [c \in 1..cols |-> 0]]

\* batch_y[idx, label] = 1 with numpy's indexing of an axis of size C:
\* 0..C-1 is the column itself, -C..-1 counts from the end, anything else
\* raises IndexError.  Columns are 1-based here.
ColumnOf(label, C) ==
    IF 0 <= label /\ label < C THEN label + 1
    ELSE IF -C <= label /\ label < 0 THEN label + C + 1
    ELSE 0

\* The loop of lines 98-100 over enumerate(labels), from row idx on.
RECURSIVE OneHotFrom(_, _, _, _)
OneHotFrom(matrix, labels, idx, task) ==
    IF idx > Len(labels) THEN [status |-> "ok", rows |-> matrix]
    ELSE LET label == OutputDtype(task, labels[idx])
             col == ColumnOf(label, task.num_classes)
         IN  IF col = 0 THEN [status |-> "IndexError", rows |-> matrix]
             ELSE OneHotFrom([matrix EXCEPT ![idx][col] = 1], labels, idx + 1, task)

\* The Ranking branch (line 95): a map over the whole label column.
RankingLabels(g, index_array) ==
    [kind |-> "map",
     items |-> [k \in DOMAIN g.relation.label |->
                   OutputDtype(g.task, g.relation.label[k])]]

\* A slip: the loop enumerates the whole label column, as line 95 does.
ClassificationLabelsAllRows(g, index_array) ==
    OneHotFrom(Zeros(Len(index_array), g.task.num_classes),
               g.relation.label, 1, g.task)

\* The Classification branch (lines 97-100).
ClassificationLabels(g, index_array) ==
    OneHotFrom(Zeros(Len(index_array), g.task.num_classes),
               Take(g.relation.label, index_array), 1, g.task)

\* The message of the ValueError of lines 102-103: the task and what was
\* expected.
TaskErrorMessage(task) ==
    [task |-> task, expected |-> {"Ranking", "Classification"}]

NoMessage == [task |-> None, expected |-> {}]

\* A slip: a task of another kind is let through with no labels.
CreateLabelsUnchecked(g, index_array) ==
    IF g.stage = "train" /\ g.task.kind = "Ranking"
    THEN [status |-> "ok", y |-> RankingLabels(g, index_array), msg |-> NoMessage]
    ELSE IF g.stage = "train" /\ g.task.kind = "Classification"
    THEN LET m == ClassificationLabels(g, index_array)
         IN  IF m.status = "ok"
             THEN [status |-> "ok", y |-> [kind |-> "ndarray", rows |-> m.rows],
                   msg |-> NoMessage]
             ELSE [status |-> m.status, y |-> None, msg |-> NoMessage]
    ELSE [status |-> "ok", y |-> None, msg |-> NoMessage]

\* A slip: the stage is not looked at, labels are made at inference too.
CreateLabelsAnyStage(g, index_array) ==
    IF g.task.kind = "Ranking"
    THEN [status |-> "ok", y |-> RankingLabels(g, index_array), msg |-> NoMessage]
    ELSE IF g.task.kind = "Classification"
    THEN LET m == ClassificationLabels(g, index_array)
         IN  IF m.status = "ok"
             THEN [status |-> "ok", y |-> [kind |-> "ndarray", rows |-> m.rows],
                   msg |-> NoMessage]
             ELSE [status |-> m.status, y |-> None, msg |-> NoMessage]
    ELSE [status |-> "ValueError", y |-> None, msg |-> TaskErrorMessage(g.task)]

\* "Create label field" (lines 85, 93-104): the labels, or the exception.
CreateLabels(g, index_array) ==
    IF g.stage = "train"
    THEN IF g.task.kind = "Ranking"
         THEN [status |-> "ok", y |-> RankingLabels(g, index_array),
               msg |-> NoMessage]
         ELSE IF g.task.kind = "Classification"
         THEN LET m == ClassificationLabels(g, index_array)
              IN  IF m.status = "ok"
                  THEN [status |-> "ok",
                        y |-> [kind |-> "ndarray", rows |-> m.rows],
                        msg |-> NoMessage]
                  ELSE [status |-> m.status, y |-> None, msg |-> NoMessage]
         ELSE [status |-> "ValueError", y |-> None,
               msg |-> TaskErrorMessage(g.task)]
    ELSE [status |-> "ok", y |-> None, msg |-> NoMessage]

\* table.loc[ids, column]: a Series indexed by ids, holding the column's
\* value at each of them (BatchX raises the KeyError of an id that the
\* table's index does not hold).
Loc(table, ids, column) ==
    [index |-> ids,
     values |-> [k \in DOMAIN ids |-> table.data[column][ids[k]]]]

\* np.array(val): the values of a Series, or the list itself.
NpArray(val) == IF "values" \in DOMAIN val THEN val.values ELSE val.items

PyList(items) == [items |-> items]

\* Lines 87-90: every column of left, of right and 'ids' starts as [].
InitColumns(g) ==
    LET columns == g.left.columns \o g.right.columns \o <<"ids">>
    IN  [c \in Range(columns) |-> PyList(<<>>)]

\* Line 110: one [id_left, id_right] list per selected row.
AppendIds(batch_x, ids_left, ids_right) ==
    DictSet(batch_x, "ids",
            PyList(batch_x["ids"].items
                   \o [k \in DOMAIN ids_left |-> <<ids_left[k], ids_right[k]>>]))

\* Lines 112-113 and 114-115: batch_x[column] = table.loc[ids, column], for
\* the columns of the table from position k on, in order.
RECURSIVE AssignColumns(_, _, _, _)
AssignColumns(batch_x, table, ids, k) ==
    IF k > Len(table.columns) THEN batch_x
    ELSE AssignColumns(
             DictSet(batch_x, table.columns[k], Loc(table, ids, table.columns[k])),
             table, ids, k + 1)

\* "Get batch of X" (lines 107-119).
BatchX(g, index_array) ==
    LET ids_left == Take(g.relation.id_left, index_array)
        ids_right == Take(g.relation.id_right, index_array)
        withIds == AppendIds(InitColumns(g), ids_left, ids_right)
        withLeft == AssignColumns(withIds, g.left, ids_left, 1)
        withRight == AssignColumns(withLeft, g.right, ids_right, 1)
    IN  IF \E k \in DOMAIN ids_left : ids_left[k] \notin g.left.index
        THEN [status |-> "KeyError", x |-> EmptyDict]
        ELSE IF \E k \in DOMAIN ids_right : ids_right[k] \notin g.right.index
        THEN [status |-> "KeyError", x |-> EmptyDict]
        ELSE [status |-> "ok",
              x |-> [c \in DOMAIN withRight |-> NpArray(withRight[c])]]

\* _get_batch_of_transformed_samples: the labels first, then the features.
\* `looked` tells whether the relation ids and the side tables were read.
BatchOfTransformedSamples(g, index_array) ==
    LET lab == CreateLabels(g, index_array)
    IN  IF lab.status # "ok"
        THEN [kind |-> "Call", index_array |-> index_array,
              status |-> lab.status, msg |-> lab.msg, looked |-> FALSE,
              x |-> EmptyDict, y |-> None]
        ELSE LET feat == BatchX(g, index_array)
             IN  [kind |-> "Call", index_array |-> index_array,
                  status |-> feat.status, msg |-> NoMessage, looked |-> TRUE,
                  x |-> feat.x,
                  y |-> IF feat.status = "ok" THEN lab.y ELSE None]

\* __init__ (lines 57-61).
NewGenerator(inputs, task, stage) ==
    [kind |-> "PointGenerator",
     relation |-> TransformRelation(inputs.relation),
     task |-> task,
     left |-> inputs.left,
     right |-> inputs.right,
     stage |-> stage]

Construct ==
    /\ gen = NoGen
    /\ \E inputs \in DataPacks, task \in Tasks, stage \in Stages :
           gen' = NewGenerator(inputs, task, stage)
    /\ UNCHANGED <<call, preVars>>

\* A call of _get_batch_of_transformed_samples (through __getitem__ of the
\* base generator), when no call is under way: calls are synchronous.
GetBatch ==
    /\ gen # NoGen
    /\ call = NoCall
    /\ \E index_array \in IndexArrays(Len(gen.relation.label)) :
           call' = BatchOfTransformedSamples(gen, index_array)
    /\ UNCHANGED <<gen, preVars>>

\* The caller takes what the call returned or raised; the generator keeps
\* nothing of it.
Deliver ==
    /\ call # NoCall
    /\ call' = NoCall
    /\ UNCHANGED <<gen, preVars>>

-----------------------------------------------------------------------------
(* Properties of PointGenerator.                                           *)

Returned == call.kind = "Call" /\ call.status = "ok"

InTrain == gen.stage = "train"

\* The labels of the rows the call selected, in index_array order.
SelectedLabels == Take(gen.relation.label, call.index_array)

SelectedLeft == Take(gen.relation.id_left, call.index_array)

SelectedRight == Take(gen.relation.id_right, call.index_array)

RECURSIVE SumFrom(_, _)
SumFrom(row, k) == IF k > Len(row) THEN 0 ELSE row[k] + SumFrom(row, k + 1)

\* C1: in the train stage with a Ranking task, the returned labels are
\* output_dtype(label) of the selected rows, one per element of index_array
\* and in its order.
C1_RankingLabelsFollowIndexArray ==
    (Returned /\ InTrain /\ gen.task.kind = "Ranking") =>
        /\ call.y.kind = "map"
        /\ call.y.items =
               [k \in DOMAIN call.index_array |->
                   OutputDtype(gen.task, SelectedLabels[k])]

\* C2: in the train stage with a Classification task of C classes and
\* selected labels within 0..C-1, the call raises neither IndexError nor
\* ValueError, and the label matrix it returns has len(index_array) rows of
\* C entries, each row summing to 1 with its 1 in the column of the row's
\* label and 0 elsewhere.
C2_OneHotRows ==
    (/\ call.kind = "Call" /\ InTrain /\ gen.task.kind = "Classification"
     /\ \A k \in DOMAIN SelectedLabels :
            SelectedLabels[k] \in 0..(gen.task.num_classes - 1)) =>
        /\ call.status \in {"ok", "KeyError"}
        /\ call.status = "ok" =>
            /\ call.y.kind = "ndarray"
            /\ Len(call.y.rows) = Len(call.index_array)
            /\ \A k \in DOMAIN call.y.rows :
                   /\ Len(call.y.rows[k]) = gen.task.num_classes
                   /\ SumFrom(call.y.rows[k], 1) = 1
                   /\ \A c \in 1..gen.task.num_classes :
                          call.y.rows[k][c] =
                              IF c = SelectedLabels[k] + 1 THEN 1 ELSE 0

\* A train-stage Classification batch of two rows with different in-range
\* labels was returned.
C2_Witness ==
    /\ Returned /\ InTrain /\ gen.task.kind = "Classification"
    /\ Len(call.index_array) = 2
    /\ \A k \in DOMAIN SelectedLabels :
           SelectedLabels[k] \in 0..(gen.task.num_classes - 1)
    /\ SelectedLabels[1] # SelectedLabels[2]
    /\ call.y.kind = "ndarray"

\* C3: whatever the side tables' column names, the 'ids' column of the
\* returned features has one entry per element of index_array, the pair
\* (id_left, id_right) of the selected relation row.
C3_IdsColumn ==
    Returned =>
        /\ "ids" \in DOMAIN call.x
        /\ call.x["ids"] =
               [k \in DOMAIN call.index_array |->
                   <<SelectedLeft[k], SelectedRight[k]>>]

\* What the claim C4 says of a call: a ValueError that names the task and the
\* expected kinds, raised before any lookup, and nothing returned.
RejectedAsInvalidTask ==
    /\ call.status = "ValueError"
    /\ call.msg.task = gen.task
    /\ call.msg.expected = {"Ranking", "Classification"}
    /\ ~call.looked
    /\ call.x = EmptyDict
    /\ call.y = None

InvalidTask == gen.task.kind \notin {"Ranking", "Classification"}

\* C4 as stated: every batch requested from a generator whose task is
\* neither Classification nor Ranking fails with the ValueError.
C4_InvalidTaskAlwaysRejected ==
    (call.kind = "Call" /\ InvalidTask) => RejectedAsInvalidTask

\* C4 as amended: every batch requested in the train stage from a generator
\* whose task is neither Classification nor Ranking fails with the
\* ValueError, before any lookup and with nothing returned.
C4_InvalidTaskRejectedInTrain ==
    (call.kind = "Call" /\ InvalidTask /\ InTrain) => RejectedAsInvalidTask

\* A train-stage batch was requested for a non-empty index_array from a
\* generator with another task, and was answered.
C4_Witness ==
    /\ call.kind = "Call" /\ InvalidTask /\ InTrain
    /\ Len(call.index_array) > 0
    /\ call.status = "ValueError"

AllColumns == Range(gen.left.columns) \cup Range(gen.right.columns) \cup {"ids"}

IdsPresent ==
    /\ \A k \in DOMAIN SelectedLeft : SelectedLeft[k] \in gen.left.index
    /\ \A k \in DOMAIN SelectedRight : SelectedRight[k] \in gen.right.index

\* C5: outside the train stage, for every index_array and every task, the
\* call raises no label or task error, it returns whenever the side tables
\* hold the selected ids, and what it returns is labels None with the
\* features assembled: every column, one value per selected row.
C5_InferenceLabelsNone ==
    (call.kind = "Call" /\ ~InTrain) =>
        /\ call.status \in {"ok", "KeyError"}
        /\ IdsPresent => call.status = "ok"
        /\ call.status = "ok" =>
            /\ call.y = None
            /\ call.looked
            /\ DOMAIN call.x = AllColumns
            /\ \A c \in DOMAIN call.x : Len(call.x[c]) = Len(call.index_array)

\* An inference batch of at least one row was returned by a generator whose
\* task is not Ranking.
C5_Witness ==
    /\ Returned /\ ~InTrain
    /\ gen.task.kind # "Ranking"
    /\ Len(call.index_array) > 0
    /\ call.y = None

\* C6: in the train stage with a Classification task of C classes, a
\* selected label outside 0..C-1 makes the call fail with an error: no label
\* matrix is returned.
C6_OutOfRangeRejected ==
    (/\ call.kind = "Call" /\ InTrain /\ gen.task.kind = "Classification"
     /\ \E k \in DOMAIN SelectedLabels :
            SelectedLabels[k] \notin 0..(gen.task.num_classes - 1)) =>
        /\ call.status # "ok"
        /\ call.y = None

\* C7: the returned features hold one entry per declared column of the left
\* table, one per declared column of the right table, and 'ids'; each left
\* column holds the left table's values at the selected id_left, each right
\* column the right table's values at the selected id_right.
C7_EveryColumnOwnValues ==
    Returned =>
        /\ DOMAIN call.x = AllColumns
        /\ Cardinality(DOMAIN call.x) =
               Len(gen.left.columns) + Len(gen.right.columns) + 1
        /\ \A j \in DOMAIN gen.left.columns :
               call.x[gen.left.columns[j]] =
                   [k \in DOMAIN call.index_array |->
                       gen.left.data[gen.left.columns[j]][SelectedLeft[k]]]
        /\ \A j \in DOMAIN gen.right.columns :
               call.x[gen.right.columns[j]] =
                   [k \in DOMAIN call.index_array |->
                       gen.right.data[gen.right.columns[j]][SelectedRight[k]]]

-----------------------------------------------------------------------------
(* Bounds and input domains of the preprocessor.                           *)

\* The largest number of tuples of a corpus given to fit.
MaxTuples == 1

\* Raw texts, as sequences of characters: "Ab is." and "a Abb.".
Texts ==
    {<<"A", "b", " ", "i", "s", ".">>,
     <<"a", " ", "A", "b", "b", ".">>}

\* A corpus: 1..MaxTuples tuples (text_left, text_right).
Corpora == UNION {[1..n -> Texts \X Texts] : n \in 1..MaxTuples}

Train == "train"

Test == "test"

\* The two preprocessor objects of the class's example.
Preprocessors == {Train, Test}

-----------------------------------------------------------------------------
(* The process units and the datapack of fit.                              *)

Punctuation == {"."}

StopWords == {<<"i", "s">>, <<"a">>}

\* segmentation: the texts of the datapack's content, left then right.
RECURSIVE Segmentation(_)
Segmentation(inputs) ==
    IF inputs = <<>> THEN <<>>
    ELSE <<Head(inputs)[1], Head(inputs)[2]>> \o Segmentation(Tail(inputs))

\* TokenizeUnit: words are split at blanks, a punctuation mark is a token of
\* its own.  `word' is the token being read.
RECURSIVE TokenizeFrom(_, _)
TokenizeFrom(text, word) ==
    LET flush == IF word = <<>> THEN <<>> ELSE <<word>>
    IN  IF text = <<>> THEN flush
        ELSE IF Head(text) = " " THEN flush \o TokenizeFrom(Tail(text), <<>>)
        ELSE IF Head(text) \in Punctuation
        THEN flush \o <<<<Head(text)>>>> \o TokenizeFrom(Tail(text), <<>>)
        ELSE TokenizeFrom(Tail(text), Append(word, Head(text)))

Tokenize(text) == TokenizeFrom(text, <<>>)

LowerChar(ch) ==
    CASE ch = "A" -> "a"
      [] ch = "B" -> "b"
      [] OTHER -> ch

\* LowercaseUnit.
Lowercase(tokens) ==
    [k \in DOMAIN tokens |-> [j \in DOMAIN tokens[k] |-> LowerChar(tokens[k][j])]]

IsPunc(token) == \E j \in DOMAIN token : token[j] \in Punctuation

NotPunc(token) == ~IsPunc(token)

\* PuncRemovalUnit.
PuncRemoval(tokens) == SelectSeq(tokens, NotPunc)

NotStop(token) == token \notin StopWords

\* StopRemovalUnit.
StopRemoval(tokens) == SelectSeq(tokens, NotStop)

\* The letter trigrams of one token, "#" added at both ends.
RECURSIVE Windows(_)
Windows(token) ==
    IF Len(token) < 3 THEN <<>>
    ELSE <<SubSeq(token, 1, 3)>> \o Windows(Tail(token))

\* NgramLetterUnit.
RECURSIVE NgramLetter(_)
NgramLetter(tokens) ==
    IF tokens = <<>> THEN <<>>
    ELSE Windows(<<"#">> \o Head(tokens) \o <<"#">>) \o NgramLetter(Tail(tokens))

\* _prepare_stateless_units and the loop of lines 100-101: the units applied
\* to a text in order.
ApplyUnits(text) ==
    NgramLetter(StopRemoval(PuncRemoval(Lowercase(Tokenize(text)))))

\* Lines 95-102: vocab.extend(text) over the content of the datapack.
RECURSIVE ExtendVocab(_)
ExtendVocab(content) ==
    IF content = <<>> THEN <<>>
    ELSE ApplyUnits(Head(content)) \o ExtendVocab(Tail(content))

CharRank(ch) ==
    CASE ch = "#" -> 0
      [] ch = "a" -> 1
      [] ch = "b" -> 2
      [] OTHER -> 3

\* The place of a term in the iteration order of the set of terms.
TermKey(term) ==
    CharRank(term[1]) * 16 + CharRank(term[2]) * 4 + CharRank(term[3])

\* VocabularyUnit.fit: every distinct term gets an index, from 1 on.
VocabularyFit(vocab) ==
    LET terms == Range(vocab)
    IN  [t \in terms |->
            1 + Cardinality({u \in terms : TermKey(u) < TermKey(t)})]

-----------------------------------------------------------------------------
(* CDSSMPreprocessor.                                                      *)

\* Lines 83-106, for every corpus: the datapack is segmented, the units are
\* applied to each text, and a new VocabularyUnit is fitted on the vocabulary.
\* (`@@' makes TLC tabulate the mapping once instead of at every use.)
TermIndexOf ==
    [inputs \in Corpora |-> VocabularyFit(ExtendVocab(Segmentation(inputs)))]
        @@ EmptyDict

\* The term index fit builds on the inputs.
FittedTermIndex(inputs) == TermIndexOf[inputs]

\* A slip: the dimension is the vocabulary size, without the extra 1.
FitContextNoPad(context, inputs) ==
    LET term_index == FittedTermIndex(inputs)
        dim_triletter == Cardinality(DOMAIN term_index)
    IN  DictSet(DictSet(context, "term_index", term_index),
                "input_shapes", <<<<dim_triletter>>, <<dim_triletter>>>>)

\* A slip: the new terms are merged into the term index already there.
FitContextMerge(context, inputs) ==
    LET fitted == FittedTermIndex(inputs)
        old == IF "term_index" \in DOMAIN context
               THEN context["term_index"] ELSE EmptyDict
        term_index == [t \in (DOMAIN old) \cup (DOMAIN fitted) |->
                          IF t \in DOMAIN fitted THEN fitted[t] ELSE old[t]]
        dim_triletter == Cardinality(DOMAIN fitted) + 1
    IN  DictSet(DictSet(context, "term_index", term_index),
                "input_shapes", <<<<dim_triletter>>, <<dim_triletter>>>>)

\* Lines 108-111: the fitted parameters stored in the context dict, in place.
FitContext(context, inputs) ==
    LET term_index == FittedTermIndex(inputs)
        dim_triletter == Cardinality(DOMAIN term_index) + 1
    IN  DictSet(DictSet(context, "term_index", term_index),
                "input_shapes", <<<<dim_triletter>>, <<dim_triletter>>>>)

NoFit == [kind |-> "NoFit"]

\* fit: the dict self._context refers to is updated, and the new datapack
\* refers to the same dict (line 112).
Fit(p) ==
    /\ \E inputs \in Corpora :
        /\ heap' = [heap EXCEPT ![ctx[p]] = FitContext(heap[ctx[p]], inputs)]
        /\ last' = [kind |-> "fit", ref |-> ctx[p], inputs |-> inputs]
    /\ dp' = [dp EXCEPT ![p] = [kind |-> "DataPack", context |-> ctx[p]]]
    /\ UNCHANGED <<ctx, held, genVars>>

\* transform: `pass`.  Nothing is read or written, whatever the inputs and
\* the stage, and None is returned.
Transform(p) ==
    /\ UNCHANGED <<preVars, genVars>>

\* The context getter: the caller receives the dict itself.
GetContext(p) ==
    /\ held' = [kind |-> "Held", ref |-> ctx[p], seen |-> heap[ctx[p]]]
    /\ UNCHANGED <<heap, ctx, dp, last, genVars>>

\* datapack.context of the datapack of p's last fit: the same dict again.
DatapackContext(p) ==
    /\ dp[p] # None
    /\ held' = [kind |-> "Held", ref |-> dp[p].context,
                seen |-> heap[dp[p].context]]
    /\ UNCHANGED <<heap, ctx, dp, last, genVars>>

\* The context setter, given a dict the caller holds: one it obtained
\* before, or the context of the other preprocessor.
SetContext(p) ==
    /\ \E ref \in {ctx[q] : q \in Preprocessors \ {p}}
                  \cup (IF held = None THEN {} ELSE {held.ref}) :
        ctx' = [ctx EXCEPT ![p] = ref]
    /\ UNCHANGED <<heap, dp, held, last, genVars>>

-----------------------------------------------------------------------------
(* Properties of CDSSMPreprocessor.                                        *)

\* The context dict the last fit wrote, as it is now.
FittedContext == heap[last.ref]

\* The distinct tokens the chain of units produces over the last fit's inputs.
FittedTokens == Range(ExtendVocab(Segmentation(last.inputs)))

\* C8: after a fit, also one that follows a fit on other inputs, the
\* context's term_index and input_shapes are those a new preprocessor (an
\* empty context) gets from the same inputs, and the keys of term_index are
\* the tokens of these inputs only.
C8_RefitReplacesContext ==
    last.kind = "fit" =>
        /\ FittedContext["term_index"] =
               FitContext(EmptyDict, last.inputs)["term_index"]
        /\ FittedContext["input_shapes"] =
               FitContext(EmptyDict, last.inputs)["input_shapes"]
        /\ DOMAIN FittedContext["term_index"] = FittedTokens

\* A dict that a caller saw fitted, with a token the inputs of the later fit
\* do not have, was fitted again.
C8_Witness ==
    /\ last.kind = "fit"
    /\ held.kind = "Held" /\ held.ref = last.ref
    /\ "term_index" \in DOMAIN held.seen
    /\ DOMAIN held.seen["term_index"] \ FittedTokens # {}
    /\ FittedTokens \ DOMAIN held.seen["term_index"] # {}

\* C9 as stated: after fit, input_shapes is a pair of shapes (unbounded batch
\* dimension, V + 1), V the number of distinct tokens: the second element of
\* each is len(term_index) + 1.
C9_ShapesBatchAndDimension ==
    last.kind = "fit" =>
        /\ Len(FittedContext["input_shapes"]) = 2
        /\ \A i \in DOMAIN FittedContext["input_shapes"] :
               LET shape == FittedContext["input_shapes"][i]
               IN  /\ Len(shape) = 2
                   /\ shape[1] = None
                   /\ shape[2] = Cardinality(FittedTokens) + 1
                   /\ shape[2] = Cardinality(DOMAIN FittedContext["term_index"]) + 1

\* C9 as amended: after fit, input_shapes is a pair of shapes (V + 1,), one
\* for the left and one for the right input, V the number of distinct tokens:
\* the only element of each is len(term_index) + 1.
C9_ShapesDimensionOnly ==
    last.kind = "fit" =>
        /\ Len(FittedContext["input_shapes"]) = 2
        /\ \A i \in DOMAIN FittedContext["input_shapes"] :
               LET shape == FittedContext["input_shapes"][i]
               IN  /\ Len(shape) = 1
                   /\ shape[1] = Cardinality(FittedTokens) + 1
                   /\ shape[1] = Cardinality(DOMAIN FittedContext["term_index"]) + 1

\* A fit on a tuple of two different texts was made; its vocabulary has more
\* than two tokens.
C9_Witness ==
    /\ last.kind = "fit"
    /\ last.inputs[1][1] # last.inputs[1][2]
    /\ Cardinality(FittedTokens) > 2
    /\ "input_shapes" \in DOMAIN FittedContext

\* C10: a context that a caller obtained after a fit keeps the term_index and
\* the input_shapes the caller saw, whatever fit, transform and context
\* setter calls follow.
C10_ObtainedContextNeverMutated ==
    (held.kind = "Held" /\ "term_index" \in DOMAIN held.seen) =>
        /\ heap[held.ref]["term_index"] = held.seen["term_index"]
        /\ heap[held.ref]["input_shapes"] = held.seen["input_shapes"]

-----------------------------------------------------------------------------
InitGen ==
    /\ gen = NoGen
    /\ call = NoCall

\* __init__ of each preprocessor (lines 47-50): a dict of its own, no datapack.
InitPre ==
    /\ heap = [r \in 1..Cardinality(Preprocessors) |-> EmptyDict]
    /\ ctx = [p \in Preprocessors |-> IF p = Train THEN 1 ELSE 2]
    /\ dp = [p \in Preprocessors |-> None]
    /\ held = None
    /\ last = NoFit

Init == InitGen /\ InitPre

NextGen == Construct \/ GetBatch \/ Deliver

SpecGen == Init /\ [][NextGen]_vars

NextPre ==
    \E p \in Preprocessors :
        \/ Fit(p)
        \/ Transform(p)
        \/ GetContext(p)
        \/ DatapackContext(p)
        \/ SetContext(p)

SpecPre == Init /\ [][NextPre]_vars

=============================================================================
